---------------------------- MODULE Spec2Model ----------------------------
(***************************************************************************)
(* A model of examples/nim.py: the Nim engine (class Nim), the session     *)
(* driver (class NimDriver) and the connection callback of main().         *)
(*                                                                         *)
(* One step of the model is the code a session's task runs between two     *)
(* suspension points (await drain / await readline / await sleep / await   *)
(* wait_closed).  pc[c] names the await the task of connection c is        *)
(* suspended at, by its source line.                                       *)
(***************************************************************************)
EXTENDS Integers, Sequences, FiniteSets, TLC

\* ------------------------------------------------------------------ bounds
\* Connections the listener may accept.
MaxConns == 2
\* Integers the peer types are drawn from -MaxAbs .. MaxAbs.
MaxAbs == 5
\* The transcript keeps the last OutWindow messages written to the stream.
OutWindow == 3
\* The counts of moves and of rounds stop growing here.
CountCap == 13

\* ------------------------------------------------------- program constants
\* range(0, 15) in _fake_progress_bar
Frames == 15

ConnIds == 1..MaxConns
\* The connection whose session the single-session specification runs.
FirstConn == {1}

\* self._piles = [3, 4, 5]
InitialPiles == <<3, 4, 5>>

\* ------------------------------------------------------------ Python lists
\* seq[i] with Python's indexing: 0-based, negative i counts from the end.
PyIndexOK(seq, i) == -Len(seq) <= i /\ i < Len(seq)

PyPos(seq, i) == IF i >= 0 THEN i + 1 ELSE Len(seq) + i + 1

PyGet(seq, i) == seq[PyPos(seq, i)]

RECURSIVE SumSeq(_)
SumSeq(s) == IF s = <<>> THEN 0 ELSE Head(s) + SumSeq(Tail(s))

\* ------------------------------------------------------------------ class Nim
\* Nim.move_is_valid: "True", "False", or "IndexError" when self._piles[pile]
\* raises.  Python's `and` stops at the first false operand.
move_is_valid_no_amount_check(ps, pile, amount) ==
    IF ~(amount > 0) THEN "False"
    ELSE IF ~(pile < Len(ps)) THEN "False"
    ELSE IF ~PyIndexOK(ps, pile) THEN "IndexError"
    ELSE "True"

move_is_valid(ps, pile, amount) ==
    IF ~(amount > 0) THEN "False"
    ELSE IF ~(pile < Len(ps)) THEN "False"
    ELSE IF ~PyIndexOK(ps, pile) THEN "IndexError"
    ELSE IF PyGet(ps, pile) >= amount THEN "True" ELSE "False"

\* Nim.play: the assertion, then self._piles[pile] -= amount.
play_every_pile(ps, pile, amount) ==
    LET ok == move_is_valid(ps, pile, amount) IN
    IF ok = "True"
      THEN [raised |-> "none", piles |-> [k \in 1..Len(ps) |-> ps[k] - amount]]
      ELSE IF ok = "False"
        THEN [raised |-> "AssertionError", piles |-> ps]
        ELSE [raised |-> "IndexError", piles |-> ps]

play_keeps_piles(ps, pile, amount) ==
    LET ok == move_is_valid(ps, pile, amount) IN
    IF ok = "True"
      THEN [raised |-> "none", piles |-> ps]
      ELSE IF ok = "False"
        THEN [raised |-> "AssertionError", piles |-> ps]
        ELSE [raised |-> "IndexError", piles |-> ps]

play(ps, pile, amount) ==
    LET ok == move_is_valid(ps, pile, amount) IN
    IF ok = "True"
      THEN [raised |-> "none",
            piles  |-> [ps EXCEPT ![PyPos(ps, pile)] = @ - amount]]
      ELSE IF ok = "False"
        THEN [raised |-> "AssertionError", piles |-> ps]
        ELSE [raised |-> "IndexError", piles |-> ps]

\* Nim.can_continue
can_continue_always(ps) == TRUE

can_continue_first_pile(ps) == ps[1] # 0

can_continue(ps) == SumSeq(ps) # 0

\* Nim.random_move: the set of (pile, amount) pairs it can return; empty when
\* random.choice is given an empty list (it raises IndexError).
random_move_from_zero(ps) ==
    LET candidates == { k \in 0..(Len(ps) - 1) : ps[k + 1] > 0 }
    IN  UNION { { <<p, a>> : a \in 0..ps[p + 1] } : p \in candidates }

random_move(ps) ==
    LET candidates == { k \in 0..(Len(ps) - 1) : ps[k + 1] > 0 }
    IN  UNION { { <<p, a>> : a \in 1..ps[p + 1] } : p \in candidates }

\* Nim.__str__: one line per pile, '*' * pile_amount ('' when it is <= 0).
\* A line is modelled by its number of stars; its position is the index shown.
Stars(ps) == [k \in 1..Len(ps) |-> IF ps[k] > 0 THEN ps[k] ELSE 0]

\* ------------------------------------------------------------------ messages
Msg(kind, body) == [kind |-> kind, body |-> body]

RenderMsg(ps) == Msg("render", Stars(ps))
PilePrompt    == Msg("Which pile would you like to take from?", <<>>)
AmountPrompt  == Msg("How many would you like to take?", <<>>)
InvalidInt    == Msg("Input wasn't a valid integer.", <<>>)
NotValid      == Msg("Not a valid move.", <<>>)
YouWon        == Msg("You won. Congrats.", <<>>)
ComputerWon   == Msg("The computer beat you. That's honestly kinda sad.", <<>>)
FrameMsg(k)   == Msg("Determining response", <<(k % 3) + 1>>)
NewLine       == Msg("newline", <<>>)

\* writer.write: the transcript window after writing m.
Write(o, m) ==
    LET s == Append(o, m)
    IN  IF Len(s) > OutWindow THEN SubSeq(s, Len(s) - OutWindow + 1, Len(s)) ELSE s

Last(s) == s[Len(s)]


\* ------------------------------------------------------------ int(line)
\* A line is the sequence of its characters.  int() of a bytes object strips
\* surrounding whitespace, takes an optional sign and then decimal digits,
\* with single underscores allowed between digits; anything else (the empty
\* line included) raises ValueError.
IsSpace(ch) == ch \in {" ", "\n", "\t", "\r"}

IsDigit(ch) == ch \in {"0", "1", "2", "3", "4", "5", "6", "7", "8", "9"}

DigitValue(ch) ==
    CASE ch = "0" -> 0 [] ch = "1" -> 1 [] ch = "2" -> 2 [] ch = "3" -> 3
      [] ch = "4" -> 4 [] ch = "5" -> 5 [] ch = "6" -> 6 [] ch = "7" -> 7
      [] ch = "8" -> 8 [] ch = "9" -> 9

RECURSIVE LStrip(_)
LStrip(s) == IF s # <<>> /\ IsSpace(Head(s)) THEN LStrip(Tail(s)) ELSE s

RECURSIVE RStrip(_)
RStrip(s) ==
    IF s # <<>> /\ IsSpace(s[Len(s)]) THEN RStrip(SubSeq(s, 1, Len(s) - 1)) ELSE s

\* Digits with single underscores between them.
DigitsOK(d) ==
    /\ d # <<>>
    /\ IsDigit(d[1])
    /\ IsDigit(d[Len(d)])
    /\ \A k \in 1..Len(d) : IsDigit(d[k]) \/ d[k] = "_"
    /\ \A k \in 1..(Len(d) - 1) : ~(d[k] = "_" /\ d[k + 1] = "_")

RECURSIVE DigitsValue(_, _)
DigitsValue(d, acc) ==
    IF d = <<>> THEN acc
    ELSE IF Head(d) = "_" THEN DigitsValue(Tail(d), acc)
    ELSE DigitsValue(Tail(d), 10 * acc + DigitValue(Head(d)))

\* int(line): [ok |-> TRUE, v |-> the value] or [ok |-> FALSE] for ValueError.
int_like_atoi(ln) ==
    LET body == RStrip(LStrip(ln))
    IN  [ok |-> TRUE,
         v  |-> IF body # <<>> /\ IsDigit(Head(body))
                  THEN DigitValue(Head(body)) ELSE 0]

int(ln) ==
    LET body   == RStrip(LStrip(ln))
        signed == body # <<>> /\ Head(body) \in {"+", "-"}
        digits == IF signed THEN Tail(body) ELSE body
    IN  IF DigitsOK(digits)
          THEN [ok |-> TRUE,
                v  |-> IF signed /\ Head(body) = "-"
                         THEN 0 - DigitsValue(digits, 0)
                         ELSE DigitsValue(digits, 0)]
          ELSE [ok |-> FALSE, v |-> 0]

\* ------------------------------------------------------- what the peer sends
RECURSIVE Decimal(_)
Decimal(n) ==
    LET ch == <<"0", "1", "2", "3", "4", "5", "6", "7", "8", "9">>
    IN  IF n < 10 THEN <<ch[n + 1]>> ELSE Append(Decimal(n \div 10), ch[(n % 10) + 1])

IntText(v) == IF v < 0 THEN <<"-">> \o Decimal(0 - v) ELSE Decimal(v)

\* The texts a peer may type: every integer of the range, some integers in
\* other spellings, and texts that are no integer.
IntTexts == { IntText(v) : v \in (0 - MaxAbs)..MaxAbs }

OtherIntTexts == { <<"+", "2">>, <<" ", "1", " ">>, <<"0", "_", "1">> }

MalformedTexts == { <<"a", "b", "c">>, <<>>, <<"1", " ", "2">>, <<"_", "1">> }

Texts == IntTexts \cup OtherIntTexts \cup MalformedTexts

\* readline() returns a text with its newline, or, when the peer has closed
\* its side, what was left before the end of the stream (possibly nothing).
FullLines == { Append(t, "\n") : t \in Texts }

LastLines == { <<>>, <<"3">> }

\* The value of a local variable that has not been assigned yet.
Unbound == 0 - (100 * (MaxAbs + 1))


\* --------------------------------------------------------------------- state
VARIABLES
    pc,       \* pc[c]: where the task of connection c is suspended
    piles,    \* piles[c]: Nim._piles of the session's engine
    pile,     \* pile[c]: the local `pile` of _ask_move while it runs, of _round after
    amount,   \* amount[c]: the local `amount` of _round
    eof,      \* eof[c]: the peer has closed its side of the stream
    i,        \* i[c]: the loop variable of _fake_progress_bar
    out,      \* out[c]: the last messages written to the writer
    err,      \* err[c]: the exception that ended the task, or "none"
    closed,   \* closed[c]: writer.close() has been called
    \* History of the session, recorded from its steps; no step reads it.
    mover,    \* mover[c]: the side whose move play applied last, or "none"
    wins,     \* wins[c]: the win announcements written so far
    moves,    \* moves[c]: how many moves play has applied
    rounds    \* rounds[c]: how many times _round has been called

vars == <<pc, piles, pile, amount, eof, i, out, err, closed,
          mover, wins, moves, rounds>>

\* The awaits of the driver, by line; p / a: _read_int was called for the
\* pile / for the amount.  "L74" stands for both drains that follow
\* _ask_move (lines 74 and 78): each is followed by the test of line 75.
DrainPcs == {"L71", "L112p", "L112a", "L121p", "L121a", "L74", "L83", "L127",
             "L88", "L99"}
ReadPcs  == {"L114p", "L114a"}
Pcs == DrainPcs \cup ReadPcs \cup {"idle", "L128", "L138", "done", "raised"}

Init ==
    /\ pc      = [c \in ConnIds |-> "idle"]
    /\ piles   = [c \in ConnIds |-> InitialPiles]
    /\ pile    = [c \in ConnIds |-> Unbound]
    /\ amount  = [c \in ConnIds |-> Unbound]
    /\ eof     = [c \in ConnIds |-> FALSE]
    /\ i       = [c \in ConnIds |-> 0]
    /\ out     = [c \in ConnIds |-> <<>>]
    /\ err     = [c \in ConnIds |-> "none"]
    /\ closed  = [c \in ConnIds |-> FALSE]
    /\ mover   = [c \in ConnIds |-> "none"]
    /\ wins    = [c \in ConnIds |-> <<>>]
    /\ moves   = [c \in ConnIds |-> 0]
    /\ rounds  = [c \in ConnIds |-> 0]

\* An exception leaves _round, play and cb: the task of c ends with it, and
\* the frames of _ask_move, _fake_progress_bar and _round go with their locals.
Raise(c, e) ==
    /\ pc'     = [pc EXCEPT ![c] = "raised"]
    /\ err'    = [err EXCEPT ![c] = e]
    /\ pile'   = [pile EXCEPT ![c] = Unbound]
    /\ amount' = [amount EXCEPT ![c] = Unbound]
    /\ i'      = [i EXCEPT ![c] = 0]

\* main.cb up to the first await: NimDriver(reader, writer), driver.play(),
\* _round: the initial render and its drain.
Accept_resets_all(c) ==
    /\ pc[c] = "idle"
    /\ piles' = [d \in ConnIds |-> InitialPiles]
    /\ out'   = [out EXCEPT ![c] = Write(@, RenderMsg(InitialPiles))]
    /\ pc'    = [pc EXCEPT ![c] = "L71"]
    /\ UNCHANGED <<pile, amount, eof, i, err, closed>>

Accept(c) ==
    /\ pc[c] = "idle"
    /\ piles' = [piles EXCEPT ![c] = InitialPiles]
    /\ out'   = [out EXCEPT ![c] = Write(@, RenderMsg(InitialPiles))]
    /\ pc'    = [pc EXCEPT ![c] = "L71"]
    /\ UNCHANGED <<pile, amount, eof, i, err, closed>>

\* Line 71 returns; _ask_move, _read_int for the pile: the prompt, its drain.
AskPile(c) ==
    /\ pc[c] = "L71"
    /\ out' = [out EXCEPT ![c] = Write(@, PilePrompt)]
    /\ pc'  = [pc EXCEPT ![c] = "L112p"]
    /\ UNCHANGED <<piles, pile, amount, eof, i, err, closed>>

\* Line 112 returns; the task awaits readline().
AwaitLine(c) ==
    /\ pc[c] \in {"L112p", "L112a"}
    /\ pc' = [pc EXCEPT ![c] = IF pc[c] = "L112p" THEN "L114p" ELSE "L114a"]
    /\ UNCHANGED <<piles, pile, amount, eof, i, out, err, closed>>

\* What readline() can return to c: a full line while the peer's side is
\* open; the rest of the stream when the peer closes; b'' ever after.
Readable(c) == IF eof[c] THEN { <<>> } ELSE FullLines \cup LastLines

\* readline() returns ln (lines 114-121).  int(ln) succeeds: _read_int
\* returns; the pile is kept and the amount is prompted for, or the amount is
\* kept and _ask_move returns to the drain of line 74/78.  ValueError: the
\* message and its drain.
ReadLine(c, ln) ==
    /\ pc[c] \in ReadPcs
    /\ ln \in Readable(c)
    /\ eof' = [eof EXCEPT ![c] = @ \/ ln \notin FullLines]
    /\ LET r == int(ln) IN
       IF r.ok
         THEN IF pc[c] = "L114p"
                THEN /\ pile' = [pile EXCEPT ![c] = r.v]
                     /\ out'  = [out EXCEPT ![c] = Write(@, AmountPrompt)]
                     /\ pc'   = [pc EXCEPT ![c] = "L112a"]
                     /\ UNCHANGED amount
                ELSE /\ amount' = [amount EXCEPT ![c] = r.v]
                     /\ pc'     = [pc EXCEPT ![c] = "L74"]
                     /\ UNCHANGED <<pile, out>>
         ELSE /\ out' = [out EXCEPT ![c] = Write(@, InvalidInt)]
              /\ pc'  = [pc EXCEPT ![c] = IF pc[c] = "L114p" THEN "L121p" ELSE "L121a"]
              /\ UNCHANGED <<pile, amount>>
    /\ UNCHANGED <<piles, i, err, closed>>

\* Line 121 returns; `while True` writes the same prompt again and drains.
Reprompt(c) ==
    /\ pc[c] \in {"L121p", "L121a"}
    /\ out' = [out EXCEPT ![c] =
                 Write(@, IF pc[c] = "L121p" THEN PilePrompt ELSE AmountPrompt)]
    /\ pc'  = [pc EXCEPT ![c] = IF pc[c] = "L121p" THEN "L112p" ELSE "L112a"]
    /\ UNCHANGED <<piles, pile, amount, eof, i, err, closed>>

\* Line 74 or 78 returns; the test of line 75.  Invalid: the message and a
\* new _ask_move (lines 76-77).  Valid: play, the render and its drain
\* (lines 80-83).  move_is_valid raising ends the task.
Validate(c) ==
    /\ pc[c] = "L74"
    /\ LET ok == move_is_valid(piles[c], pile[c], amount[c]) IN
       CASE ok = "IndexError" ->
              /\ Raise(c, "IndexError")
              /\ UNCHANGED <<piles, out>>
         [] ok = "False" ->
              /\ out' = [out EXCEPT ![c] = Write(Write(@, NotValid), PilePrompt)]
              /\ pc'  = [pc EXCEPT ![c] = "L112p"]
              /\ UNCHANGED <<piles, pile, amount, i, err>>
         [] ok = "True" ->
              LET res == play(piles[c], pile[c], amount[c]) IN
              IF res.raised # "none"
                THEN /\ Raise(c, res.raised)
                     /\ UNCHANGED <<piles, out>>
                ELSE /\ piles' = [piles EXCEPT ![c] = res.piles]
                     /\ out'   = [out EXCEPT ![c] = Write(@, RenderMsg(res.piles))]
                     /\ pc'    = [pc EXCEPT ![c] = "L83"]
                     /\ UNCHANGED <<pile, amount, i, err>>
    /\ UNCHANGED <<eof, closed>>

\* Line 83 returns; _fake_progress_bar starts: frame 0 and its drain.
StartProgress(c) ==
    /\ pc[c] = "L83"
    /\ i'   = [i EXCEPT ![c] = 0]
    /\ out' = [out EXCEPT ![c] = Write(@, FrameMsg(0))]
    /\ pc'  = [pc EXCEPT ![c] = "L127"]
    /\ UNCHANGED <<piles, pile, amount, eof, err, closed>>

\* Line 127 returns; the task awaits asyncio.sleep(0.1).
Sleep(c) ==
    /\ pc[c] = "L127"
    /\ pc' = [pc EXCEPT ![c] = "L128"]
    /\ UNCHANGED <<piles, pile, amount, eof, i, out, err, closed>>

\* The sleep returns and frames remain: the next frame and its drain.
NextFrame(c) ==
    /\ pc[c] = "L128"
    /\ i[c] + 1 < Frames
    /\ i'   = [i EXCEPT ![c] = @ + 1]
    /\ out' = [out EXCEPT ![c] = Write(@, FrameMsg(i[c] + 1))]
    /\ pc'  = [pc EXCEPT ![c] = "L127"]
    /\ UNCHANGED <<piles, pile, amount, eof, err, closed>>

\* _round returned True: play calls _round again (line 66), with new locals;
\* the render of line 70 and its drain.  o is the transcript so far.
NextRound_stale_render(c, ps, o) ==
    /\ out'    = [out EXCEPT ![c] = Write(o, RenderMsg(piles[c]))]
    /\ pc'     = [pc EXCEPT ![c] = "L71"]
    /\ pile'   = [pile EXCEPT ![c] = Unbound]
    /\ amount' = [amount EXCEPT ![c] = Unbound]

NextRound(c, ps, o) ==
    /\ out'    = [out EXCEPT ![c] = Write(o, RenderMsg(ps))]
    /\ pc'     = [pc EXCEPT ![c] = "L71"]
    /\ pile'   = [pile EXCEPT ![c] = Unbound]
    /\ amount' = [amount EXCEPT ![c] = Unbound]

\* The last sleep returns: the newline of line 130, then lines 86-102 up to
\* the next drain.  (Respond_no_reply: _round returning True before line 91.)
Respond_no_reply(c) ==
    /\ pc[c] = "L128"
    /\ i[c] + 1 >= Frames
    /\ NextRound(c, piles[c], Write(out[c], NewLine))
    /\ i' = [i EXCEPT ![c] = 0]
    /\ UNCHANGED <<piles, err, eof, closed>>

\* The last sleep returns: the newline of line 130, then lines 86-102 up to
\* the next drain.  m is the move random_move returns; random.choice of an
\* empty list raises IndexError.
Respond(c) ==
    /\ pc[c] = "L128"
    /\ i[c] + 1 >= Frames
    /\ LET o == Write(out[c], NewLine) IN
       IF ~can_continue(piles[c])
         THEN /\ out' = [out EXCEPT ![c] = Write(o, YouWon)]
              /\ pc'  = [pc EXCEPT ![c] = "L88"]
              /\ i'   = [i EXCEPT ![c] = 0]
              /\ UNCHANGED <<piles, pile, amount, err>>
         ELSE IF random_move(piles[c]) = {}
           THEN /\ Raise(c, "IndexError")
                /\ out' = [out EXCEPT ![c] = o]
                /\ UNCHANGED piles
           ELSE \E m \in random_move(piles[c]) :
                  LET res == play(piles[c], m[1], m[2]) IN
                  IF res.raised # "none"
                    THEN /\ Raise(c, res.raised)
                         /\ out' = [out EXCEPT ![c] = o]
                         /\ UNCHANGED piles
                    ELSE /\ piles' = [piles EXCEPT ![c] = res.piles]
                         /\ i'     = [i EXCEPT ![c] = 0]
                         /\ UNCHANGED <<err>>
                         /\ IF ~can_continue(res.piles)
                              THEN /\ out' = [out EXCEPT ![c] =
                                         Write(Write(o, RenderMsg(res.piles)),
                                               ComputerWon)]
                                   /\ pc'     = [pc EXCEPT ![c] = "L99"]
                                   /\ pile'   = [pile EXCEPT ![c] = m[1]]
                                   /\ amount' = [amount EXCEPT ![c] = m[2]]
                              ELSE NextRound(c, res.piles, o)
    /\ UNCHANGED <<eof, closed>>

\* Line 88 or 99 returns; _round returns False, play returns, cb closes the
\* writer and awaits wait_closed().
Close(c) ==
    /\ pc[c] \in {"L88", "L99"}
    /\ closed' = [closed EXCEPT ![c] = TRUE]
    /\ pc'     = [pc EXCEPT ![c] = "L138"]
    /\ pile'   = [pile EXCEPT ![c] = Unbound]
    /\ amount' = [amount EXCEPT ![c] = Unbound]
    /\ UNCHANGED <<piles, eof, i, out, err>>

\* wait_closed() returns; cb returns.
Finish(c) ==
    /\ pc[c] = "L138"
    /\ pc' = [pc EXCEPT ![c] = "done"]
    /\ UNCHANGED <<piles, pile, amount, eof, i, out, err, closed>>

\* The connection is lost: the drain() or readline() the task is suspended
\* at raises ConnectionResetError.
TransportError_kills_all(c) ==
    /\ pc[c] \in DrainPcs \cup ReadPcs
    /\ pc'     = [d \in ConnIds |->
                    IF pc[d] \in {"idle", "done", "raised"} THEN pc[d] ELSE "raised"]
    /\ err'    = [d \in ConnIds |->
                    IF pc[d] \in {"idle", "done", "raised"} THEN err[d]
                    ELSE "ConnectionResetError"]
    /\ pile'   = [d \in ConnIds |-> Unbound]
    /\ amount' = [d \in ConnIds |-> Unbound]
    /\ i'      = [d \in ConnIds |-> 0]
    /\ UNCHANGED <<piles, eof, out, closed>>

TransportError(c) ==
    /\ pc[c] \in DrainPcs \cup ReadPcs
    /\ Raise(c, "ConnectionResetError")
    /\ UNCHANGED <<piles, eof, out, closed>>

\* ------------------------------------------------------------------ history
\* The step of c returns from the play of line 80 (the human's move) / of
\* line 92 (the computer's move).
HumanApplied(c) == pc[c] = "L74" /\ pc'[c] = "L83"

ComputerApplied(c) == pc[c] = "L128" /\ pc'[c] \in {"L71", "L99"}

\* The step of c calls _round (line 66).
RoundStarted(c) == pc[c] # "L71" /\ pc'[c] = "L71"

\* The step of c writes a win announcement (lines 87, 97): the last thing
\* a step writes when it writes one.
Announced(c) == out'[c] # out[c] /\ Last(out'[c]) \in {YouWon, ComputerWon}

RecordMover ==
    mover' = [c \in ConnIds |->
                IF HumanApplied(c) THEN "human"
                ELSE IF ComputerApplied(c) THEN "computer"
                ELSE mover[c]]

RecordWins ==
    wins' = [c \in ConnIds |->
               IF Announced(c) THEN Append(wins[c], Last(out'[c])) ELSE wins[c]]

Bump(n) == IF n < CountCap THEN n + 1 ELSE n

RecordCounts ==
    /\ moves'  = [c \in ConnIds |->
                    IF HumanApplied(c) \/ ComputerApplied(c)
                      THEN Bump(moves[c]) ELSE moves[c]]
    /\ rounds' = [c \in ConnIds |->
                    IF RoundStarted(c) THEN Bump(rounds[c]) ELSE rounds[c]]

\* What the single-session specification records: who moved, what was
\* announced.
History == RecordMover /\ RecordWins /\ UNCHANGED <<moves, rounds>>

\* One session.
Next ==
    \/ \E c \in FirstConn : Accept(c) /\ History
    \/ \E c \in FirstConn : AskPile(c) /\ History
    \/ \E c \in FirstConn : AwaitLine(c) /\ History
    \/ \E c \in FirstConn : \E ln \in FullLines \cup LastLines :
                                ReadLine(c, ln) /\ History
    \/ \E c \in FirstConn : Reprompt(c) /\ History
    \/ \E c \in FirstConn : Validate(c) /\ History
    \/ \E c \in FirstConn : StartProgress(c) /\ History
    \/ \E c \in FirstConn : Sleep(c) /\ History
    \/ \E c \in FirstConn : NextFrame(c) /\ History
    \/ \E c \in FirstConn : Respond(c) /\ History
    \/ \E c \in FirstConn : Close(c) /\ History
    \/ \E c \in FirstConn : Finish(c) /\ History
    \/ \E c \in FirstConn : TransportError(c) /\ History

Spec == Init /\ [][Next]_vars

\* ------------------------------------------------------ concurrent sessions
\* asyncio.start_server starts one task running cb for every connection it
\* accepts; the event loop runs one task at a time, from one await to the
\* next.  Two connections at once:
ConcConns == {1, 2}

\* What the two peers type: the first answers every prompt with 1 (pile 1,
\* one object at a time); the second answers the pile prompt with 0 and the
\* amount prompt with 3 or with a malformed text (it empties pile 0, then
\* its moves are invalid).
ConcLines(c) ==
    IF c = 1 THEN { <<"1", "\n">> }
    ELSE IF pc[c] = "L114p" THEN { <<"0", "\n">> }
    ELSE { <<"3", "\n">>, <<"a", "b", "c", "\n">> }

NextConc ==
    \/ \E c \in ConcConns : Accept(c) /\ History
    \/ \E c \in ConcConns : AskPile(c) /\ History
    \/ \E c \in ConcConns : AwaitLine(c) /\ History
    \/ \E c \in ConcConns : \E ln \in ConcLines(c) :
                                ReadLine(c, ln) /\ History
    \/ \E c \in ConcConns : Reprompt(c) /\ History
    \/ \E c \in ConcConns : Validate(c) /\ History
    \/ \E c \in ConcConns : StartProgress(c) /\ History
    \/ \E c \in ConcConns : Sleep(c) /\ History
    \/ \E c \in ConcConns : NextFrame(c) /\ History
    \/ \E c \in ConcConns : Respond(c) /\ History
    \/ \E c \in ConcConns : Close(c) /\ History
    \/ \E c \in ConcConns : Finish(c) /\ History
    \/ \E c \in ConcConns : TransportError(c) /\ History

SpecConc == Init /\ [][NextConc]_vars

\* ------------------------------------------------------- a session to its end
\* What the peer types, and it stays connected: at the pile prompt the index
\* of a pile, empty or not; at the amount prompt 1 or a malformed text.
LiveLines(c) ==
    IF pc[c] = "L114p" THEN { <<"0", "\n">>, <<"1", "\n">>, <<"2", "\n">> }
    ELSE { <<"1", "\n">>, <<"a", "b", "c", "\n">> }

HistoryLive == RecordMover /\ RecordWins /\ RecordCounts

NextLive ==
    \/ \E c \in FirstConn : Accept(c) /\ HistoryLive
    \/ \E c \in FirstConn : AskPile(c) /\ HistoryLive
    \/ \E c \in FirstConn : AwaitLine(c) /\ HistoryLive
    \/ \E c \in FirstConn : \E ln \in LiveLines(c) :
                                ReadLine(c, ln) /\ HistoryLive
    \/ \E c \in FirstConn : Reprompt(c) /\ HistoryLive
    \/ \E c \in FirstConn : Validate(c) /\ HistoryLive
    \/ \E c \in FirstConn : StartProgress(c) /\ HistoryLive
    \/ \E c \in FirstConn : Sleep(c) /\ HistoryLive
    \/ \E c \in FirstConn : NextFrame(c) /\ HistoryLive
    \/ \E c \in FirstConn : Respond(c) /\ HistoryLive
    \/ \E c \in FirstConn : Close(c) /\ HistoryLive
    \/ \E c \in FirstConn : Finish(c) /\ HistoryLive
    \/ \E c \in FirstConn : TransportError(c) /\ HistoryLive

\* The steps of the task of c that the event loop takes by itself: a drain,
\* a sleep or wait_closed() that returns resumes the task.
Resumed(c) ==
    \/ AskPile(c)
    \/ AwaitLine(c)
    \/ Reprompt(c)
    \/ Validate(c)
    \/ StartProgress(c)
    \/ Sleep(c)
    \/ NextFrame(c)
    \/ Respond(c)
    \/ Close(c)
    \/ Finish(c)

\* readline() returns a line that int() parses.
ParseableLine(c) ==
    \E ln \in LiveLines(c) : int(ln).ok /\ ReadLine(c, ln)

\* readline() returns the index of a pile that is not empty, typed at the
\* pile prompt.
ValidPileLine(c) ==
    \E ln \in LiveLines(c) :
        /\ pc[c] = "L114p"
        /\ int(ln).ok
        /\ \E a \in 1..MaxAbs : move_is_valid(piles[c], int(ln).v, a) = "True"
        /\ ReadLine(c, ln)

\* readline() returns an amount that makes a valid move with the pile asked
\* for, typed at the amount prompt.
ValidAmountLine(c) ==
    \E ln \in LiveLines(c) :
        /\ pc[c] = "L114a"
        /\ int(ln).ok
        /\ move_is_valid(piles[c], pile[c], int(ln).v) = "True"
        /\ ReadLine(c, ln)

\* The event loop resumes a task that can run; a peer that is asked again
\* and again ends up typing an integer, a pile that is not empty, and an
\* amount that is valid for it.
Fairness ==
    \A c \in FirstConn :
        /\ WF_vars(Resumed(c) /\ HistoryLive)
        /\ SF_vars(ParseableLine(c) /\ HistoryLive)
        /\ SF_vars(ValidPileLine(c) /\ HistoryLive)
        /\ SF_vars(ValidAmountLine(c) /\ HistoryLive)

SpecLive == Init /\ [][NextLive]_vars /\ Fairness

TypeOK ==
    /\ pc \in [ConnIds -> Pcs]
    /\ \A c \in ConnIds : Len(out[c]) <= OutWindow
    /\ \A c \in ConnIds : i[c] \in 0..(Frames - 1)


\* ================================================================== claims
\* The integers a caller may pass.
ArgRange == (0 - MaxAbs)..MaxAbs

Accepted(c) == pc[c] # "idle"

\* The validity of a move as the specification states it:
\* 0 <= pile < pile_count, amount > 0, amount <= piles[pile].
ValidMove(ps, p, a) == 0 <= p /\ p < Len(ps) /\ a > 0 /\ a <= ps[p + 1]

\* The last k messages of a transcript.
Tail_k(o, k) == SubSeq(o, Len(o) - k + 1, Len(o))

\* C1: move_is_valid(pile, amount) is true exactly when 0 <= pile < 3,
\* amount > 0 and amount <= piles[pile], for every integer pile and amount
\* the driver passes it at line 75, in every reachable pile state.
C1_MoveIsValidExact ==
    \A c \in ConnIds : pc[c] = "L74" =>
        ((move_is_valid(piles[c], pile[c], amount[c]) = "True")
            <=> ValidMove(piles[c], pile[c], amount[c]))

\* C2: move_is_valid never raises: for every integer pile and amount the
\* driver passes it at line 75 it returns a boolean, and false when the pile
\* index is out of range.
C2_MoveIsValidNeverRaises ==
    \A c \in ConnIds : pc[c] = "L74" =>
        /\ move_is_valid(piles[c], pile[c], amount[c]) \in {"True", "False"}
        /\ (pile[c] < 0 \/ pile[c] >= Len(piles[c]))
              => move_is_valid(piles[c], pile[c], amount[c]) = "False"

\* C3: in every reachable state of a session the game has exactly 3 piles
\* and every pile is >= 0.
C3_PilesInvariant ==
    \A c \in ConnIds :
        /\ Len(piles[c]) = 3
        /\ \A k \in 1..Len(piles[c]) : piles[c][k] >= 0

\* A move the client gave with a negative index has been applied and has
\* emptied a pile.
C3_Witness ==
    \E c \in ConnIds :
        /\ pc[c] = "L83"
        /\ pile[c] < 0
        /\ \E k \in 1..3 : piles[c][k] = 0

\* C4: the driver never applies a client move that is not valid (negative or
\* zero amount, pile index below 0 or >= 3, amount above the pile): when
\* the test of line 75 meets such a move, play is not invoked and the piles
\* are unchanged.
C4_InvalidMovesRejected ==
    [][ \A c \in ConnIds :
          (pc[c] = "L74" /\ ~ValidMove(piles[c], pile[c], amount[c]))
            => (piles'[c] = piles[c] /\ pc'[c] # "L83") ]_vars

\* C5: for every valid move (p, a), 0 <= p < 3 and 1 <= a <= piles[p],
\* play(p, a) returns normally having reduced piles[p] by exactly a and left
\* every other pile unchanged.
C5_PlayFrame ==
    \A c \in ConnIds : Accepted(c) =>
        \A p \in 0..2 : \A a \in 1..MaxAbs :
            a <= piles[c][p + 1] =>
                LET res == play(piles[c], p, a) IN
                /\ res.raised = "none"
                /\ Len(res.piles) = Len(piles[c])
                /\ res.piles[p + 1] = piles[c][p + 1] - a
                /\ \A k \in 1..Len(piles[c]) :
                       k # p + 1 => res.piles[k] = piles[c][k]

\* The client's first move, a valid one, has been applied by the driver.
C5_Witness ==
    \E c \in ConnIds :
        /\ pc[c] = "L83"
        /\ ValidMove(InitialPiles, pile[c], amount[c])
        /\ piles[c] = [InitialPiles EXCEPT ![pile[c] + 1] = @ - amount[c]]

\* C6: when readline reports the end of the stream at a prompt, the session
\* is aborted at once: nothing more is written, no move is applied, the read
\* is not retried.
C6_EofAborts ==
    [][ \A c \in ConnIds :
          ReadLine(c, <<>>)
            => (pc'[c] = "raised" /\ out'[c] = out[c] /\ piles'[c] = piles[c]) ]_vars

\* C7: play called with an invalid move (here the move the driver holds at
\* line 75) fails and leaves the piles unchanged; it never returns normally
\* having modified a pile.
C7_PlayRejectsInvalid ==
    \A c \in ConnIds :
        (pc[c] = "L74" /\ ~ValidMove(piles[c], pile[c], amount[c])) =>
            /\ play(piles[c], pile[c], amount[c]).raised # "none"
            /\ play(piles[c], pile[c], amount[c]).piles = piles[c]

\* C8: every move random_move can return names a non-empty pile and an
\* amount from 1 to that pile's size, so play's assertion holds for it; it
\* can return one whenever a pile is non-empty; in [0, 2, 0] it can return
\* (1, 1) and (1, 2) and nothing else.
C8_RandomMoveLegal ==
    \A c \in ConnIds : Accepted(c) =>
        /\ \A m \in random_move(piles[c]) :
              /\ m[1] \in 0..2
              /\ piles[c][m[1] + 1] > 0
              /\ 1 <= m[2] /\ m[2] <= piles[c][m[1] + 1]
              /\ play(piles[c], m[1], m[2]).raised = "none"
        /\ (\E k \in 1..3 : piles[c][k] > 0) => random_move(piles[c]) # {}
        /\ piles[c] = <<0, 2, 0>> => random_move(piles[c]) = { <<1, 1>>, <<1, 2>> }

\* The computer is about to choose its move in [0, 2, 0].
C8_Witness ==
    \E c \in ConnIds :
        /\ piles[c] = <<0, 2, 0>>
        /\ pc[c] = "L128"
        /\ i[c] = Frames - 1

\* The step of c gets to line 91: the last frame's sleep has returned and the
\* task goes on past the test of line 86.
CallsRandomMove(c) ==
    /\ pc[c] = "L128"
    /\ i[c] + 1 >= Frames
    /\ pc'[c] \in {"L71", "L99", "raised"}

\* C9: random_move is called only in states where a pile is non-empty; the
\* driver asks for no computer move after the human has emptied the last pile.
C9_RandomMoveOnlyWhenMovesRemain ==
    [][ \A c \in ConnIds :
          /\ CallsRandomMove(c) => \E k \in 1..3 : piles[c][k] > 0
          /\ (pc[c] = "L128" /\ i[c] + 1 >= Frames /\ piles[c] = <<0, 0, 0>>)
               => (pc'[c] = "L88" /\ piles'[c] = piles[c]) ]_vars

\* The human has emptied the last pile and the driver has announced it.
C9_Witness ==
    \E c \in ConnIds :
        /\ pc[c] = "L88"
        /\ piles[c] = <<0, 0, 0>>
        /\ Last(out[c]) = YouWon

\* The lines of the peer that are no integer, as sent and at the end of the
\* stream.
MalformedLines == { Append(t, "\n") : t \in MalformedTexts } \cup { <<>> }

\* C10: a line that is no integer, at the pile or at the amount prompt,
\* produces the invalid-integer message and then the same prompt again and a
\* new read, with the piles unchanged and, at the amount prompt, the pile
\* index kept; the loop has no attempt limit: its only other exit is a
\* transport error.
C10_MalformedReprompts ==
    [][ \A c \in ConnIds :
          /\ \A ln \in MalformedLines :
                ReadLine(c, ln) =>
                    /\ pc'[c] = (IF pc[c] = "L114p" THEN "L121p" ELSE "L121a")
                    /\ Last(out'[c]) = InvalidInt
                    /\ piles'[c] = piles[c]
                    /\ pile'[c] = pile[c]
          /\ (pc[c] \in {"L121p", "L121a"} /\ pc'[c] \notin {pc[c], "raised"}) =>
                /\ pc'[c] = (IF pc[c] = "L121p" THEN "L112p" ELSE "L112a")
                /\ Tail_k(out'[c], 2) =
                     <<InvalidInt, IF pc[c] = "L121p" THEN PilePrompt ELSE AmountPrompt>>
                /\ piles'[c] = piles[c]
                /\ pile'[c] = pile[c]
          /\ (pc[c] \in {"L112p", "L112a"} /\ pc'[c] \notin {pc[c], "raised"}) =>
                /\ pc'[c] = (IF pc[c] = "L112p" THEN "L114p" ELSE "L114a")
                /\ out'[c] = out[c]
                /\ piles'[c] = piles[c]
                /\ pile'[c] = pile[c] ]_vars

\* Two malformed lines in a row at the amount prompt, the pile index of the
\* client still held.
C10_Witness ==
    \E c \in ConnIds :
        /\ pc[c] = "L121a"
        /\ Len(out[c]) >= 3
        /\ Tail_k(out[c], 3) = <<InvalidInt, AmountPrompt, InvalidInt>>
        /\ pile[c] \in 0..2
        /\ piles[c] # InitialPiles


\* C11: when the client supplies a well-formed but invalid move, the server
\* writes the invalid-move message, leaves the piles unchanged and solicits
\* the pile index again, then the amount: the next move tested at line 75 is
\* made of a pile index and an amount read after the rejection.
C11_InvalidMoveResolicited ==
    [][ \A c \in ConnIds :
          /\ (/\ pc[c] = "L74"
              /\ ~ValidMove(piles[c], pile[c], amount[c])
              /\ pc'[c] # "L74"
              /\ err'[c] # "ConnectionResetError") =>
                /\ pc'[c] = "L112p"
                /\ Tail_k(out'[c], 2) = <<NotValid, PilePrompt>>
                /\ piles'[c] = piles[c]
          /\ (pc[c] = "L114p" /\ pc'[c] = "L112a") =>
                \E ln \in FullLines \cup LastLines :
                    int(ln).ok /\ pile'[c] = int(ln).v
          /\ (pc[c] # "L74" /\ pc'[c] = "L74") =>
                /\ pc[c] = "L114a"
                /\ \E ln \in FullLines \cup LastLines :
                       int(ln).ok /\ amount'[c] = int(ln).v ]_vars


AllEmpty(ps) == \A k \in 1..Len(ps) : ps[k] = 0

\* The test of line 86 is what the step of c starts with.
AtLine86(c) == pc[c] = "L128" /\ i[c] + 1 >= Frames

\* C12: if no moves remain after the human's move is applied, the session
\* announces a human win and ends: from that move on the piles stay as they
\* are, the progress frames and then the human-win message are all that is
\* written (no prompt, no computer-win message), and the task goes to the
\* drain of line 88, closes and returns.
C12_HumanWinEnds ==
    [][ \A c \in ConnIds :
          /\ (pc[c] \in {"L83", "L127", "L128", "L88"} /\ AllEmpty(piles[c])) =>
                /\ piles'[c] = piles[c]
                /\ pc'[c] \in {pc[c], "L127", "L128", "L88", "L138", "raised"}
                /\ out'[c] # out[c] =>
                      Last(out'[c]).kind \in {FrameMsg(0).kind, YouWon.kind}
          /\ (AtLine86(c) /\ AllEmpty(piles[c])) =>
                /\ pc'[c] \in {pc[c], "L88"}
                /\ pc'[c] = "L88" => Tail_k(out'[c], 2) = <<NewLine, YouWon>>
          /\ pc[c] = "L88" =>
                /\ pc'[c] \in {"L88", "L138", "raised"}
                /\ out'[c] = out[c]
          /\ pc[c] \in {"L138", "done"} =>
                /\ pc'[c] \in {pc[c], "done"}
                /\ out'[c] = out[c]
                /\ piles'[c] = piles[c] ]_vars

\* The human has won and the session has ended.
C12_Witness ==
    \E c \in ConnIds :
        /\ pc[c] = "done"
        /\ AllEmpty(piles[c])
        /\ Last(out[c]) = YouWon

\* C13: the computer's move is applied at line 92; if no moves remain, the
\* final all-empty render and then the computer-win message are written and
\* the session ends with nothing more written; if moves remain, nothing is
\* announced and the next round renders the state the move left, then
\* prompts for the pile.
C13_ComputerMoveOutcome ==
    [][ \A c \in ConnIds :
          /\ (AtLine86(c) /\ ~AllEmpty(piles[c]) /\ pc'[c] # pc[c]) =>
                /\ piles'[c] # piles[c]
                /\ IF AllEmpty(piles'[c])
                     THEN /\ pc'[c] = "L99"
                          /\ Tail_k(out'[c], 3) =
                               <<NewLine, RenderMsg(<<0, 0, 0>>), ComputerWon>>
                     ELSE /\ pc'[c] = "L71"
                          /\ Tail_k(out'[c], 2) = <<NewLine, RenderMsg(piles'[c])>>
          /\ pc[c] = "L99" =>
                /\ pc'[c] \in {"L99", "L138", "raised"}
                /\ out'[c] = out[c]
                /\ piles'[c] = piles[c]
          /\ (pc[c] = "L71" /\ pc'[c] \notin {"L71", "raised"}) =>
                /\ pc'[c] = "L112p"
                /\ Tail_k(out'[c], 2) = <<RenderMsg(piles[c]), PilePrompt>>
                /\ piles'[c] = piles[c] ]_vars

\* The computer has emptied the last pile and has been announced the winner.
C13_Witness ==
    \E c \in ConnIds :
        /\ pc[c] = "L99"
        /\ AllEmpty(piles[c])
        /\ Tail_k(out[c], 2) = <<RenderMsg(<<0, 0, 0>>), ComputerWon>>

\* C14: can_continue() is false exactly when all piles are 0, in every
\* reachable state; from [3, 4, 5] the moves (0,3), (1,4), (2,5) yield
\* [0, 0, 0] with can_continue() false, and it is true before each of them.
C14_CanContinueIffNotEmpty ==
    /\ \A c \in ConnIds : can_continue(piles[c]) <=> ~AllEmpty(piles[c])
    /\ LET s0 == InitialPiles
           s1 == play(s0, 0, 3).piles
           s2 == play(s1, 1, 4).piles
           s3 == play(s2, 2, 5).piles
       IN  /\ s1 = <<0, 4, 5>> /\ s2 = <<0, 0, 5>> /\ s3 = <<0, 0, 0>>
           /\ can_continue(s0) /\ can_continue(s1) /\ can_continue(s2)
           /\ ~can_continue(s3)

\* The move (2, 5) of the human has emptied the last pile.
C14_Witness ==
    \E c \in ConnIds :
        /\ pc[c] = "L83"
        /\ pile[c] = 2 /\ amount[c] = 5
        /\ piles[c] = <<0, 0, 0>>

\* C15: every way a session can end closes its stream: once the task of the
\* connection has ended, normally or by an exception, writer.close() has been
\* called.
C15_EveryEndCloses ==
    \A c \in ConnIds : pc[c] \in {"done", "raised"} => closed[c]


\* The step is one of the task of c: every step of a task moves it to
\* another await.
StepOf(c) == pc'[c] # pc[c]

\* C16: concurrent sessions share no game state: a step of one session leaves
\* the piles and the pending move (pile, amount) of every other session
\* unchanged, and a session that starts holds its own [3, 4, 5].
C16_SessionsShareNoState ==
    [][ \A c \in ConnIds :
          /\ StepOf(c) =>
                \A d \in ConnIds \ {c} :
                    /\ piles'[d] = piles[d]
                    /\ pile'[d] = pile[d]
                    /\ amount'[d] = amount[d]
          /\ (pc[c] = "idle" /\ StepOf(c)) => piles'[c] = InitialPiles ]_vars

\* Both sessions are in a game, each with piles of its own and a pending
\* move of its own.
C16_Witness ==
    /\ pc[1] = "L74" /\ pc[2] = "L74"
    /\ piles[1] # InitialPiles /\ piles[2] # InitialPiles
    /\ piles[1] # piles[2]
    /\ pile[1] # pile[2] /\ amount[1] # amount[2]

\* A step the task of d can take without its connection failing.
CanStep(d) ==
    \/ AskPile(d) /\ History
    \/ AwaitLine(d) /\ History
    \/ \E ln \in ConcLines(d) : ReadLine(d, ln) /\ History
    \/ Reprompt(d) /\ History
    \/ Validate(d) /\ History
    \/ StartProgress(d) /\ History
    \/ Sleep(d) /\ History
    \/ NextFrame(d) /\ History
    \/ Respond(d) /\ History
    \/ Close(d) /\ History
    \/ Finish(d) /\ History

\* The whole state of session d.
SessionState(d) ==
    <<pc[d], piles[d], pile[d], amount[d], eof[d], i[d], out[d], err[d], closed[d]>>

\* C17: a transport error in one session ends only that session: the step
\* that raises it changes nothing of any other session, and with sessions
\* ended by it, every other session that has not ended can take its next
\* step and a connection not yet served can be accepted.
C17_ErrorEndsOnlyItsSession ==
    /\ [][ \A c \in ConnIds :
             (StepOf(c) /\ err'[c] = "ConnectionResetError") =>
                 \A d \in ConnIds \ {c} : SessionState(d)' = SessionState(d) ]_vars
    /\ [](\A c \in ConcConns : \A d \in ConcConns \ {c} :
             err[c] = "ConnectionResetError" =>
                 /\ pc[d] = "idle" => ENABLED (Accept(d) /\ History)
                 /\ pc[d] \notin {"idle", "done", "raised"} => ENABLED CanStep(d))

\* One session was ended by a transport error before any move was applied;
\* the other has played its game to the end and has closed its stream.
C17_Witness ==
    /\ err[2] = "ConnectionResetError"
    /\ piles[2] = InitialPiles
    /\ pc[1] = "done"
    /\ AllEmpty(piles[1])
    /\ closed[1]

\* The step of c writes a prompt.
Prompted(c) == out'[c] # out[c] /\ Last(out'[c]) \in {PilePrompt, AmountPrompt}

\* C18: moves strictly alternate, human first: the piles change only when
\* play applies a move; the human's move is applied only when no move or
\* the computer's was the last one, the computer's only when the human's was
\* the last one; no prompt is written while the human's move is the last one.
C18_MovesAlternate ==
    [][ \A c \in ConnIds :
          /\ piles'[c] # piles[c] => (HumanApplied(c) \/ ComputerApplied(c))
          /\ HumanApplied(c) => (mover[c] \in {"none", "computer"} /\ piles'[c] # piles[c])
          /\ ComputerApplied(c) => (mover[c] = "human" /\ piles'[c] # piles[c])
          /\ Prompted(c) => mover'[c] \in {"none", "computer"} ]_vars

\* The human's second move has been applied: every pile has been taken from.
C18_Witness ==
    \E c \in ConnIds :
        /\ pc[c] = "L83"
        /\ mover[c] = "human"
        /\ \A k \in 1..3 : piles[c][k] < InitialPiles[k]

\* C19: every game is bounded: every applied move makes the sum of the
\* piles strictly smaller, at most 12 moves are applied and at most 6 rounds
\* are played; and with a peer that ends up typing a valid line whenever it
\* is asked again and again, a session ends: with all piles at 0 and its
\* driver loop left, unless an exception has ended its task before.
C19_GameBounded ==
    /\ [](\A c \in ConnIds :
            /\ moves[c] + SumSeq(piles[c]) <= SumSeq(InitialPiles)
            /\ moves[c] <= 12
            /\ rounds[c] <= 6)
    /\ [][ \A c \in ConnIds :
             (HumanApplied(c) \/ ComputerApplied(c)) =>
                 SumSeq(piles'[c]) < SumSeq(piles[c]) ]_vars
    /\ \A c \in FirstConn :
          Accepted(c) ~> \/ pc[c] = "done" /\ AllEmpty(piles[c])
                         \/ pc[c] = "raised"

\* A game of 12 moves in 6 rounds has been played to its end.
C19_Witness ==
    \E c \in ConnIds :
        /\ pc[c] = "done"
        /\ moves[c] = 12
        /\ rounds[c] = 6

\* C20: a win announcement is written only with all piles at 0 and names the
\* side that applied the last move; a session writes at most one, and has
\* written exactly one when its driver loop has ended normally.
C20_OneTrueAnnouncement ==
    \A c \in ConnIds :
        /\ Len(wins[c]) <= 1
        /\ wins[c] # <<>> =>
              /\ AllEmpty(piles[c])
              /\ mover[c] \in {"human", "computer"}
              /\ wins[c][1] = (IF mover[c] = "human" THEN YouWon ELSE ComputerWon)
        /\ pc[c] \in {"L138", "done"} => Len(wins[c]) = 1

\* The session has ended normally with the computer announced the winner.
C20_Witness ==
    \E c \in ConnIds :
        /\ pc[c] = "done"
        /\ wins[c] = <<ComputerWon>>
        /\ mover[c] = "computer"

=============================================================================
